---- MODULE Spec2Model ----
(***************************************************************************)
(* Arena-backed singly linked queue (DEFINE_ALINKED_NODE).                 *)
(*                                                                         *)
(* Node handles are the arena's slots 1..arena_len; NULL is 0.  The node   *)
(* memory is the pair of functions data / next over the slots.  The arena  *)
(* (arena.h) and the free-list vector (vector.h) are external libraries:   *)
(* the arena hands out its slots in order and fails when none is left, the *)
(* vector is a sequence with push at the end and pop from the end.         *)
(*                                                                         *)
(* The repository holds two copies of the header.  They differ in one      *)
(* statement: shift of src/alinked_queue.h ends with queue->len--, shift   *)
(* of src/unnamed/part_001 does not.  Spec is the first, SpecPart001 the   *)
(* second.                                                                 *)
(***************************************************************************)
EXTENDS Integers, Sequences, FiniteSets, TLC

\* ----------------------------------------------------------------- bounds
MaxArena == 3
MaxVal == 2
MaxOps == 5
\* Calls made in a run of the two threads.
MaxCalls == 4

\* -------------------------------------------------------------- constants
NULL == 0
\* The value below zero of the unsigned len field (size_t wraps to its top
\* value; the model's integers are 32 bits wide, so the top value is the
\* largest of those).
SIZE_MAX == 2147483647

\* What the free_list field holds when init returned without writing it.
Unset == -1
\* The arguments of the free list's vec init: capacity 15, growth factor 1.5
\* (in tenths).
FREE_LIST_CAPACITY == 15
FREE_LIST_GROWTH_TENTHS == 15

Slots == 1 .. MaxArena
Values == 1 .. MaxVal
\* An indeterminate payload (a slot that was never written).
Indeterminate == 0

VARIABLES
    \* alinked_queue_##NAME##_t
    head, tail, len, allocator, free_list,
    \* the memory behind the pointers
    data, next,          \* alinked_node_##NAME##_t, per slot
    vec,                 \* the elements of *free_list
    vec_init,            \* the arguments *free_list was initialised with
    arena_len,           \* slots of the arena
    arena_used,          \* slots the arena has handed out
    ub,                  \* undefined behaviour was executed
    \* observations of the calls made so far
    ret,                 \* value returned by the last shift
    last,                \* the last call: what it was and what it did
    nIns, nShift, nDestroy,   \* calls of append+prepend, shift, destroy
    acqFailed,           \* some node acquisition failed
    nOk,                 \* calls of append+prepend that inserted a node
    maxLen,              \* the highest len an insertion has left
    nPrepend,            \* calls of prepend
    S,                   \* the abstract sequence of payloads
    appended,            \* the values appended, in order, while the run is
                         \* made of successful appends and shifts only
    inserted, dropped,   \* values ever inserted / ever dropped
    arena_released, fl_freed, elem_freed,  \* destroy_arena, free, destructor calls
    \* the callers
    thr,                 \* per thread: the statement it is at and its locals
    mutex,               \* the thread holding the callers' lock, 0 for none
    locking              \* whether the callers take a lock around each call

queue == <<head, tail, len, allocator, free_list>>
memory == <<data, next, vec, vec_init, arena_len, arena_used>>
observed == <<ret, last, nIns, nShift, nDestroy, acqFailed, nOk, maxLen,
              nPrepend, S, appended, inserted, dropped, arena_released,
              fl_freed, elem_freed>>
callers == <<thr, mutex, locking>>
vars == <<queue, memory, ub, observed, callers>>

nOps == nIns + nShift + nDestroy

\* The record of a call: op(arg); ok, whether it got a node; node, the node
\* it inserted or removed; reused, whether the node came from the free list;
\* stale, the next link the node carried when it was acquired; front, the
\* front of S before the call; lenBefore and freeBefore, len and the length
\* of the free list before the call; prevOp, prevArg, prevOk, the call before.
Call(op, arg, ok, node, reused, stale) ==
    [op |-> op, arg |-> arg, ok |-> ok, node |-> node,
     reused |-> reused, stale |-> stale,
     front |-> IF S = <<>> THEN Indeterminate ELSE Head(S),
     lenBefore |-> len, freeBefore |-> Len(vec),
     prevOp |-> last.op, prevArg |-> last.arg, prevOk |-> last.ok]

NoCall == [op |-> "init", arg |-> 0, ok |-> TRUE, node |-> NULL,
           reused |-> FALSE, stale |-> NULL,
           front |-> Indeterminate, lenBefore |-> 0, freeBefore |-> 0,
           prevOp |-> "none", prevArg |-> 0, prevOk |-> TRUE]

\* ------------------------------------------------------------------- init
\* A mutation: the else branch that writes free_list = NULL is missing.
init_leaves_free_list_unset(n, flOk, garbage) ==
    /\ allocator = 1
    /\ head = NULL
    /\ tail = NULL
    /\ len = 0
    /\ free_list = IF flOk THEN 1 ELSE Unset
    /\ vec = <<>>
    /\ vec_init = IF flOk THEN <<FREE_LIST_CAPACITY, FREE_LIST_GROWTH_TENTHS>>
                  ELSE <<>>
    /\ arena_len = n
    /\ arena_used = 0
    /\ data = [s \in Slots |-> Indeterminate]
    /\ next = [s \in Slots |-> garbage]

\* alinked_queue_##NAME##_init with arena_new succeeding: flOk is whether the
\* malloc of the free list succeeded.  A fresh slot holds indeterminate
\* bytes: garbage is what its next field reads as.
alinked_queue_init(n, flOk, garbage) ==
    /\ allocator = 1
    /\ head = NULL
    /\ tail = NULL
    /\ len = 0
    /\ free_list = IF flOk THEN 1 ELSE NULL
    /\ vec = <<>>
    /\ vec_init = IF flOk THEN <<FREE_LIST_CAPACITY, FREE_LIST_GROWTH_TENTHS>>
                  ELSE <<>>
    /\ arena_len = n
    /\ arena_used = 0
    /\ data = [s \in Slots |-> Indeterminate]
    /\ next = [s \in Slots |-> garbage]

\* alinked_queue_##NAME##_init with arena_new failing: it returns before the
\* free_list field is written.
alinked_queue_init_no_arena(garbage) ==
    /\ allocator = NULL
    /\ head = NULL
    /\ tail = NULL
    /\ len = 0
    /\ free_list = Unset
    /\ vec = <<>>
    /\ vec_init = <<>>
    /\ arena_len = 0
    /\ arena_used = 0
    /\ data = [s \in Slots |-> Indeterminate]
    /\ next = [s \in Slots |-> garbage]

Threads == 1 .. 2

\* A thread that is in no call.
Idle == [pc |-> "idle", arg |-> 0, node |-> NULL, tmp |-> 0]

\* No call was made yet.
NothingObserved ==
    /\ thr = [t \in Threads |-> Idle]
    /\ mutex = 0
    /\ ub = FALSE
    /\ ret = Indeterminate
    /\ last = NoCall
    /\ nIns = 0 /\ nShift = 0 /\ nDestroy = 0 /\ nPrepend = 0
    /\ acqFailed = FALSE
    /\ nOk = 0
    /\ maxLen = 0
    /\ S = <<>>
    /\ appended = <<>>
    /\ inserted = {} /\ dropped = {}
    /\ arena_released = 0 /\ fl_freed = 0 /\ elem_freed = 0

Init ==
    /\ \E n \in 1 .. MaxArena, flOk \in BOOLEAN, garbage \in {NULL, 1} :
           alinked_queue_init(n, flOk, garbage)
    /\ NothingObserved
    /\ locking = FALSE

\* ------------------------------------------------------ external libraries
\* arena_malloc(queue->allocator): the next unused slot, or NULL when the
\* arena has none left.
arena_malloc ==
    IF arena_used < arena_len
    THEN [node |-> arena_used + 1, used |-> arena_used + 1]
    ELSE [node |-> NULL, used |-> arena_used]

\* vec_pop: removes and returns the last element.
vec_pop(v) == [node |-> v[Len(v)], rest |-> SubSeq(v, 1, Len(v) - 1)]

\* vec_push: adds an element at the end.
vec_push(v, n) == Append(v, n)

\* size_t arithmetic of len++ and len--.
SizeInc(n) == IF n = SIZE_MAX THEN 0 ELSE n + 1
SizeDec(n) == IF n = 0 THEN SIZE_MAX ELSE n - 1

\* What a read of queue->free_list gives.  Reading the field while it is
\* unset is undefined: the build reads it as NULL and carries on, or reads
\* it as a wild pointer and traps at the first use of it.
FreeListRead == IF free_list = Unset THEN NULL ELSE free_list

\* -------------------------------------------------------- node acquisition
\* A mutation: the arena is asked first, the free list only when it fails.
suitable_arena_first ==
    IF arena_malloc.node # NULL
    THEN [node |-> arena_malloc.node, vec |-> vec, used |-> arena_malloc.used,
          reused |-> FALSE, fault |-> allocator = NULL]
    ELSE IF FreeListRead # NULL /\ Len(vec) > 0
    THEN [node |-> vec_pop(vec).node, vec |-> vec_pop(vec).rest,
          used |-> arena_used, reused |-> TRUE, fault |-> allocator = NULL]
    ELSE [node |-> NULL, vec |-> vec, used |-> arena_used, reused |-> FALSE,
          fault |-> free_list = Unset \/ allocator = NULL]

\* A mutation: the free list is not looked at, the arena is always asked.
suitable_ignores_free_list ==
    [node |-> arena_malloc.node, vec |-> vec, used |-> arena_malloc.used,
     reused |-> FALSE, fault |-> free_list = Unset \/ allocator = NULL]

\* __fluent_libc_##NAME##_linked_queue_suitable: the node to use (NULL when
\* there is none), and the free list and arena after the call.  fault: the
\* free_list field was read unset, or arena_malloc was given a NULL
\* allocator.
linked_queue_suitable ==
    IF FreeListRead # NULL /\ Len(vec) > 0
    THEN [node |-> vec_pop(vec).node, vec |-> vec_pop(vec).rest,
          used |-> arena_used, reused |-> TRUE, fault |-> FALSE]
    ELSE [node |-> arena_malloc.node, vec |-> vec, used |-> arena_malloc.used,
          reused |-> FALSE,
          fault |-> free_list = Unset \/ allocator = NULL]

\* The queue and memory as a record, what an operation computes.
Unchanged(s) ==
    [node |-> s.node, reused |-> s.reused, fault |-> s.fault,
     head |-> head, tail |-> tail, len |-> len,
     data |-> data, next |-> next, vec |-> s.vec, used |-> s.used]

\* ------------------------------------------------------------------ append
\* A mutation: the recycled node keeps the next link it had.
append_keeps_next(v) ==
    LET s == linked_queue_suitable
        u == Unchanged(s)
    IN  IF s.node = NULL THEN u
        ELSE LET d == [data EXCEPT ![s.node] = v] IN
             IF len = 0
             THEN [u EXCEPT !.head = s.node, !.tail = s.node, !.data = d,
                            !.len = SizeInc(len)]
             ELSE IF tail = NULL
             THEN [u EXCEPT !.fault = TRUE, !.tail = s.node, !.data = d,
                            !.len = SizeInc(len)]
             ELSE [u EXCEPT !.tail = s.node, !.data = d,
                            !.next = [next EXCEPT ![tail] = s.node],
                            !.len = SizeInc(len)]

\* A mutation: queue->len++ is done before the node is tested.
append_counts_first(v) ==
    LET s == linked_queue_suitable
        u == Unchanged(s)
    IN  IF s.node = NULL THEN [u EXCEPT !.len = SizeInc(len)]
        ELSE LET d == [data EXCEPT ![s.node] = v]
                 x == [next EXCEPT ![s.node] = NULL]
             IN
             IF len = 0
             THEN [u EXCEPT !.head = s.node, !.tail = s.node, !.data = d,
                            !.next = x, !.len = SizeInc(len)]
             ELSE IF tail = NULL
             THEN [u EXCEPT !.fault = TRUE, !.tail = s.node, !.data = d,
                            !.next = x, !.len = SizeInc(len)]
             ELSE [u EXCEPT !.tail = s.node, !.data = d,
                            !.next = [x EXCEPT ![tail] = s.node],
                            !.len = SizeInc(len)]

\* A mutation: the new node is linked but tail is left where it was.
append_keeps_tail(v) ==
    LET s == linked_queue_suitable
        u == Unchanged(s)
    IN  IF s.node = NULL THEN u
        ELSE LET d == [data EXCEPT ![s.node] = v]
                 x == [next EXCEPT ![s.node] = NULL]
             IN
             IF len = 0
             THEN [u EXCEPT !.head = s.node, !.tail = s.node, !.data = d,
                            !.next = x, !.len = SizeInc(len)]
             ELSE IF tail = NULL
             THEN [u EXCEPT !.fault = TRUE, !.data = d,
                            !.next = x, !.len = SizeInc(len)]
             ELSE [u EXCEPT !.data = d,
                            !.next = [x EXCEPT ![tail] = s.node],
                            !.len = SizeInc(len)]

\* alinked_queue_##NAME##_append.  fault: queue->tail->next = node was
\* executed with queue->tail == NULL (the fields are then those of a build
\* that drops the store).
append(v) ==
    LET s == linked_queue_suitable
        u == Unchanged(s)
    IN  IF s.node = NULL THEN u
        ELSE LET d == [data EXCEPT ![s.node] = v]
                 x == [next EXCEPT ![s.node] = NULL]
             IN
             IF len = 0
             THEN [u EXCEPT !.head = s.node, !.tail = s.node, !.data = d,
                            !.next = x, !.len = SizeInc(len)]
             ELSE IF tail = NULL
             THEN [u EXCEPT !.fault = TRUE, !.tail = s.node, !.data = d,
                            !.next = x, !.len = SizeInc(len)]
             ELSE [u EXCEPT !.tail = s.node, !.data = d,
                            !.next = [x EXCEPT ![tail] = s.node],
                            !.len = SizeInc(len)]

\* ----------------------------------------------------------------- prepend
\* A mutation: queue->head = node sits inside the if, with queue->tail = node.
prepend_keeps_head(v) ==
    LET s == linked_queue_suitable
        u == Unchanged(s)
    IN  IF s.node = NULL THEN u
        ELSE [u EXCEPT !.data = [data EXCEPT ![s.node] = v],
                       !.next = [next EXCEPT ![s.node] = head],
                       !.tail = IF len = 0 THEN s.node ELSE tail,
                       !.head = IF len = 0 THEN s.node ELSE head,
                       !.len = SizeInc(len)]

\* A mutation: queue->tail = node is done without the test of queue->len.
prepend_moves_tail(v) ==
    LET s == linked_queue_suitable
        u == Unchanged(s)
    IN  IF s.node = NULL THEN u
        ELSE [u EXCEPT !.data = [data EXCEPT ![s.node] = v],
                       !.next = [next EXCEPT ![s.node] = head],
                       !.tail = s.node,
                       !.head = s.node,
                       !.len = SizeInc(len)]

\* alinked_queue_##NAME##_prepend.
prepend(v) ==
    LET s == linked_queue_suitable
        u == Unchanged(s)
    IN  IF s.node = NULL THEN u
        ELSE [u EXCEPT !.data = [data EXCEPT ![s.node] = v],
                       !.next = [next EXCEPT ![s.node] = head],
                       !.tail = IF len = 0 THEN s.node ELSE tail,
                       !.head = s.node,
                       !.len = SizeInc(len)]

\* ------------------------------------------------------------------- shift
\* The statements of shift up to the push, shared by the two copies of the
\* header.  fault: node->next or node->data was read with node == NULL, or
\* the free_list field was read unset.
ShiftBody ==
    LET node == head IN
    [node |-> node, reused |-> FALSE,
     fault |-> node = NULL \/ free_list = Unset,
     head |-> IF head = tail THEN NULL
              ELSE IF node = NULL THEN NULL ELSE next[node],
     tail |-> IF head = tail THEN NULL ELSE tail,
     len |-> len,
     data |-> data, next |-> next,
     vec |-> IF FreeListRead # NULL THEN vec_push(vec, node) ELSE vec,
     used |-> arena_used,
     ret |-> IF node = NULL THEN Indeterminate ELSE data[node]]

\* A mutation: the push is made without the test of queue->free_list.
shift_pushes_unchecked ==
    [ShiftBody EXCEPT !.len = SizeDec(len),
                      !.vec = vec_push(vec, head)]

\* A mutation: the removed node is pushed twice.
shift_pushes_twice ==
    [ShiftBody EXCEPT !.len = SizeDec(len),
                      !.vec = IF FreeListRead # NULL
                              THEN vec_push(vec_push(vec, head), head)
                              ELSE vec]

\* A mutation: head is not advanced when more than one node is linked.
shift_keeps_head ==
    [ShiftBody EXCEPT !.len = SizeDec(len),
                      !.head = IF head = tail THEN NULL ELSE head]

\* A mutation: the removed node is not pushed onto the free list.
shift_drops_node ==
    [ShiftBody EXCEPT !.len = SizeDec(len),
                      !.vec = vec]

\* alinked_queue_##NAME##_shift of src/alinked_queue.h.
shift == [ShiftBody EXCEPT !.len = SizeDec(len)]

\* alinked_queue_##NAME##_shift of src/unnamed/part_001: no queue->len--.
shift_part001 == ShiftBody

\* ----------------------------------------------------------------- destroy
\* vec_destroy(free_list, destructor): the number of elements the destructor
\* is called on (none for a NULL destructor).
vec_destroy(v, destructor) == IF destructor THEN Len(v) ELSE 0

\* A mutation: the allocator field is not cleared after the release.
destroy_keeps_allocator ==
    [allocator |-> allocator,
     released |-> IF allocator # NULL THEN 1 ELSE 0,
     head |-> NULL, tail |-> NULL, len |-> 0,
     free_list |-> NULL,
     vec |-> <<>>,
     fault |-> free_list = Unset,
     freed |-> IF FreeListRead # NULL THEN 1 ELSE 0,
     elems |-> IF FreeListRead # NULL THEN vec_destroy(vec, FALSE) ELSE 0]

\* A mutation: head is left pointing into the released arena.
destroy_keeps_head ==
    [allocator |-> NULL,
     released |-> IF allocator # NULL THEN 1 ELSE 0,
     head |-> head, tail |-> NULL, len |-> 0,
     free_list |-> NULL,
     vec |-> <<>>,
     fault |-> free_list = Unset,
     freed |-> IF FreeListRead # NULL THEN 1 ELSE 0,
     elems |-> IF FreeListRead # NULL THEN vec_destroy(vec, FALSE) ELSE 0]

\* alinked_queue_##NAME##_destroy: the fields after the call, and how many
\* times it called destroy_arena, free(queue->free_list) and the element
\* destructor.  fault: the free_list field was read unset.
destroy ==
    [allocator |-> NULL,
     released |-> IF allocator # NULL THEN 1 ELSE 0,
     head |-> NULL, tail |-> NULL, len |-> 0,
     free_list |-> NULL,
     vec |-> <<>>,
     fault |-> free_list = Unset,
     freed |-> IF FreeListRead # NULL THEN 1 ELSE 0,
     elems |-> IF FreeListRead # NULL THEN vec_destroy(vec, FALSE) ELSE 0]

\* ----------------------------------------------------------------- actions
\* The run so far is made of successful appends and of shifts only.
Pure == nPrepend = 0 /\ ~acqFailed /\ nDestroy = 0

\* The queue may be called: it was not destroyed, no call so far executed
\* undefined behaviour, and the run is within the bound.
Callable == allocator # NULL /\ ~ub /\ nOps < MaxOps

\* The fields and the memory take the values r computes.  After undefined
\* behaviour the build either traps (nothing is written) or carries on with
\* the values of r.
Store(r) ==
    /\ ub' = (ub \/ r.fault)
    /\ \E trap \in {FALSE, r.fault} :
         IF trap
         THEN UNCHANGED <<head, tail, len, data, next, vec, arena_used>>
         ELSE /\ head' = r.head
              /\ tail' = r.tail
              /\ len' = r.len
              /\ data' = r.data
              /\ next' = r.next
              /\ vec' = r.vec
              /\ arena_used' = r.used
    /\ UNCHANGED <<allocator, free_list, vec_init, arena_len>>

Insert(op, v, r) ==
    LET ok == r.node # NULL IN
    /\ Store(r)
    /\ last' = Call(op, v, ok, r.node, r.reused,
                     IF ok THEN next[r.node] ELSE NULL)
    /\ nIns' = nIns + 1
    /\ nPrepend' = IF op = "prepend" THEN nPrepend + 1 ELSE nPrepend
    /\ acqFailed' = (acqFailed \/ ~ok)
    /\ nOk' = IF ok THEN nOk + 1 ELSE nOk
    /\ maxLen' = IF len' > maxLen THEN len' ELSE maxLen
    /\ S' = IF ~ok THEN S
            ELSE IF op = "append" THEN Append(S, v) ELSE <<v>> \o S
    /\ appended' = IF Pure /\ ok /\ op = "append"
                   THEN Append(appended, v) ELSE <<>>
    /\ inserted' = IF ok THEN inserted \cup {v} ELSE inserted
    /\ dropped' = IF ok THEN dropped ELSE dropped \cup {v}
    /\ UNCHANGED <<ret, nShift, nDestroy, arena_released, fl_freed, elem_freed>>
    /\ UNCHANGED callers

alinked_queue_append(v) ==
    /\ Callable
    /\ Insert("append", v, append(v))

alinked_queue_prepend(v) ==
    /\ Callable
    /\ Insert("prepend", v, prepend(v))

Remove(r) ==
    /\ Store(r)
    /\ ret' = r.ret
    /\ last' = Call("shift", 0, TRUE, r.node, FALSE, NULL)
    /\ nShift' = nShift + 1
    /\ S' = IF S = <<>> THEN S ELSE Tail(S)
    /\ appended' = IF Pure THEN appended ELSE <<>>
    /\ UNCHANGED <<nIns, nPrepend, acqFailed, nOk, maxLen, nDestroy,
                   inserted, dropped, arena_released, fl_freed, elem_freed>>
    /\ UNCHANGED callers

\* shift is called on a non-empty queue only (the caller's precondition).
alinked_queue_shift ==
    /\ Callable
    /\ head # NULL
    /\ Remove(shift)

alinked_queue_shift_part001 ==
    /\ Callable
    /\ head # NULL
    /\ Remove(shift_part001)

\* The fields take the values r computes.  When free_list was read unset
\* the build either traps at vec destroy (the field stays as it was) or
\* carries on with the values of r.
Destroyed(r) ==
    /\ ub' = (ub \/ r.fault)
    /\ allocator' = r.allocator
    /\ head' = r.head
    /\ tail' = r.tail
    /\ len' = r.len
    /\ \E trap \in {FALSE, r.fault} :
         free_list' = IF trap THEN free_list ELSE r.free_list
    /\ vec' = r.vec
    /\ vec_init' = <<>>
    /\ arena_released' = arena_released + r.released
    /\ fl_freed' = fl_freed + r.freed
    /\ elem_freed' = elem_freed + r.elems
    /\ last' = Call("destroy", 0, TRUE, NULL, FALSE, NULL)
    /\ nDestroy' = nDestroy + 1
    /\ S' = <<>>
    /\ appended' = <<>>
    /\ UNCHANGED <<data, next, arena_len, arena_used, ret, nIns, nShift,
                   nPrepend, acqFailed, nOk, maxLen, inserted, dropped>>
    /\ UNCHANGED callers

alinked_queue_destroy ==
    /\ ~ub
    /\ nOps < MaxOps
    /\ Destroyed(destroy)

Next ==
    \/ \E v \in Values : alinked_queue_append(v)
    \/ \E v \in Values : alinked_queue_prepend(v)
    \/ alinked_queue_shift
    \/ alinked_queue_destroy

Spec == Init /\ [][Next]_vars

\* The queue whose init could not construct the arena, and the calls made on
\* it all the same.  A call that has trapped is the end of the run.
InitNoArena ==
    /\ \E garbage \in {NULL, 1} : alinked_queue_init_no_arena(garbage)
    /\ NothingObserved
    /\ locking = FALSE

Trapped == ub /\ last.op = "destroy" /\ free_list = Unset

append_no_arena(v) ==
    /\ nOps < MaxOps
    /\ ~Trapped
    /\ Insert("append", v, append(v))

prepend_no_arena(v) ==
    /\ nOps < MaxOps
    /\ ~Trapped
    /\ Insert("prepend", v, prepend(v))

destroy_no_arena ==
    /\ nOps < MaxOps
    /\ ~Trapped
    /\ Destroyed(destroy)

NextNoArena ==
    \/ \E v \in Values : append_no_arena(v)
    \/ \E v \in Values : prepend_no_arena(v)
    \/ destroy_no_arena

SpecNoArena == InitNoArena /\ [][NextNoArena]_vars

\* shift called whether the queue is empty or not.
alinked_queue_shift_unchecked ==
    /\ Callable
    /\ Remove(shift)

NextUnchecked ==
    \/ \E v \in Values : alinked_queue_append(v)
    \/ \E v \in Values : alinked_queue_prepend(v)
    \/ alinked_queue_shift_unchecked
    \/ alinked_queue_destroy

SpecUnchecked == Init /\ [][NextUnchecked]_vars

\* The copy of the header in src/unnamed/part_001.
NextPart001 ==
    \/ \E v \in Values : alinked_queue_append(v)
    \/ \E v \in Values : alinked_queue_prepend(v)
    \/ alinked_queue_shift_part001
    \/ alinked_queue_destroy

SpecPart001 == Init /\ [][NextPart001]_vars

\* ----------------------------------------------------------------- threads
\* Two threads call append and shift on the same queue, each call executed
\* one statement at a time, the statements of the two threads interleaved in
\* any order (len++ and len-- are a read and a write).  Thread 1 appends,
\* thread 2 appends or shifts; each thread appends its own number, so that
\* the payloads show whose node is linked.  The header takes no lock; when locking, the
\* callers hold one lock of their own from the call to the return.
Shifter == 2

\* What no statement of append or shift writes.
ThreadFrame ==
    UNCHANGED <<allocator, free_list, vec_init, arena_len, locking, last,
                nDestroy, acqFailed, maxLen, nPrepend, S, appended, inserted,
                dropped, arena_released, fl_freed, elem_freed>>

\* A mutation: the lock is taken without waiting for its holder.
acquire_held(t) ==
    /\ mutex' = IF locking THEN t ELSE mutex

\* The caller takes its lock before the call.
acquire(t) ==
    /\ locking => mutex = 0
    /\ mutex' = IF locking THEN t ELSE mutex

\* Thread t enters a call with argument v; its first statement is at l.
Enter(t, l, v) ==
    /\ allocator # NULL
    /\ ~ub
    /\ nOps < MaxCalls
    /\ thr[t].pc = "idle"
    /\ acquire(t)
    /\ thr' = [thr EXCEPT ![t] = [Idle EXCEPT !.pc = l, !.arg = v]]

\* Thread t is at statement l and goes to statement m.
Goto(t, l, m) ==
    /\ ~ub
    /\ thr[t].pc = l
    /\ thr' = [thr EXCEPT ![t].pc = m]
    /\ UNCHANGED mutex

\* Thread t is at statement l, its last, and returns; the caller gives its
\* lock back.
Return(t, l) ==
    /\ ~ub
    /\ thr[t].pc = l
    /\ thr' = [thr EXCEPT ![t] = Idle]
    /\ mutex' = IF locking THEN 0 ELSE mutex

thread_append_call(t, v) ==
    /\ Enter(t, "suitable", v)
    /\ nIns' = nIns + 1
    /\ UNCHANGED <<head, tail, len, data, next, vec, arena_used, ub, ret,
                   nShift, nOk>>
    /\ ThreadFrame

\* node = linked_queue_suitable(queue); if (!node) return;
thread_append_suitable(t) ==
    LET s == linked_queue_suitable IN
    /\ ~ub
    /\ thr[t].pc = "suitable"
    /\ vec' = s.vec
    /\ arena_used' = s.used
    /\ IF s.node = NULL
       THEN /\ thr' = [thr EXCEPT ![t] = Idle]
            /\ mutex' = IF locking THEN 0 ELSE mutex
       ELSE /\ thr' = [thr EXCEPT ![t].pc = "data", ![t].node = s.node]
            /\ UNCHANGED mutex
    /\ UNCHANGED <<head, tail, len, data, next, ub, ret, nIns, nShift, nOk>>
    /\ ThreadFrame

\* node->data = data;
thread_append_data(t) ==
    /\ Goto(t, "data", "next")
    /\ data' = [data EXCEPT ![thr[t].node] = thr[t].arg]
    /\ UNCHANGED <<head, tail, len, next, vec, arena_used, ub, ret, nIns,
                   nShift, nOk>>
    /\ ThreadFrame

\* node->next = NULL;
thread_append_next(t) ==
    /\ Goto(t, "next", "test")
    /\ next' = [next EXCEPT ![thr[t].node] = NULL]
    /\ UNCHANGED <<head, tail, len, data, vec, arena_used, ub, ret, nIns,
                   nShift, nOk>>
    /\ ThreadFrame

\* if (queue->len == 0)
thread_append_test(t) ==
    /\ Goto(t, "test", IF len = 0 THEN "head" ELSE "link")
    /\ UNCHANGED <<head, tail, len, data, next, vec, arena_used, ub, ret,
                   nIns, nShift, nOk>>
    /\ ThreadFrame

\* queue->head = node;
thread_append_head(t) ==
    /\ Goto(t, "head", "tail")
    /\ head' = thr[t].node
    /\ UNCHANGED <<tail, len, data, next, vec, arena_used, ub, ret, nIns,
                   nShift, nOk>>
    /\ ThreadFrame

\* queue->tail->next = node;  With queue->tail == NULL the store is
\* undefined behaviour.
thread_append_link(t) ==
    /\ Goto(t, "link", "tail")
    /\ ub' = (tail = NULL)
    /\ next' = IF tail = NULL THEN next
               ELSE [next EXCEPT ![tail] = thr[t].node]
    /\ UNCHANGED <<head, tail, len, data, vec, arena_used, ret, nIns,
                   nShift, nOk>>
    /\ ThreadFrame

\* queue->tail = node;
thread_append_tail(t) ==
    /\ Goto(t, "tail", "inc")
    /\ tail' = thr[t].node
    /\ UNCHANGED <<head, len, data, next, vec, arena_used, ub, ret, nIns,
                   nShift, nOk>>
    /\ ThreadFrame

\* queue->len++, the read.
thread_append_inc(t) ==
    /\ ~ub
    /\ thr[t].pc = "inc"
    /\ thr' = [thr EXCEPT ![t].pc = "inc_store", ![t].tmp = len]
    /\ UNCHANGED <<head, tail, len, data, next, vec, arena_used, ub, ret,
                   nIns, nShift, nOk, mutex>>
    /\ ThreadFrame

\* queue->len++, the write; return.
thread_append_inc_store(t) ==
    /\ Return(t, "inc_store")
    /\ len' = SizeInc(thr[t].tmp)
    /\ nOk' = nOk + 1
    /\ UNCHANGED <<head, tail, data, next, vec, arena_used, ub, ret, nIns,
                   nShift>>
    /\ ThreadFrame

\* shift is called on a queue the caller has seen non-empty.
thread_shift_call(t) ==
    /\ t = Shifter
    /\ head # NULL
    /\ Enter(t, "node", 0)
    /\ nShift' = nShift + 1
    /\ UNCHANGED <<head, tail, len, data, next, vec, arena_used, ub, ret,
                   nIns, nOk>>
    /\ ThreadFrame

\* node = queue->head;
thread_shift_node(t) ==
    /\ ~ub
    /\ thr[t].pc = "node"
    /\ thr' = [thr EXCEPT ![t].pc = "ends", ![t].node = head]
    /\ UNCHANGED <<head, tail, len, data, next, vec, arena_used, ub, ret,
                   nIns, nShift, nOk, mutex>>
    /\ ThreadFrame

\* if (queue->head == queue->tail)
thread_shift_ends(t) ==
    /\ Goto(t, "ends", IF head = tail THEN "head_null" ELSE "head_next")
    /\ UNCHANGED <<head, tail, len, data, next, vec, arena_used, ub, ret,
                   nIns, nShift, nOk>>
    /\ ThreadFrame

\* queue->head = NULL;
thread_shift_head_null(t) ==
    /\ Goto(t, "head_null", "tail_null")
    /\ head' = NULL
    /\ UNCHANGED <<tail, len, data, next, vec, arena_used, ub, ret, nIns,
                   nShift, nOk>>
    /\ ThreadFrame

\* queue->tail = NULL;
thread_shift_tail_null(t) ==
    /\ Goto(t, "tail_null", "push")
    /\ tail' = NULL
    /\ UNCHANGED <<head, len, data, next, vec, arena_used, ub, ret, nIns,
                   nShift, nOk>>
    /\ ThreadFrame

\* queue->head = node->next;
thread_shift_head_next(t) ==
    /\ Goto(t, "head_next", "push")
    /\ head' = next[thr[t].node]
    /\ UNCHANGED <<tail, len, data, next, vec, arena_used, ub, ret, nIns,
                   nShift, nOk>>
    /\ ThreadFrame

\* if (queue->free_list) push(queue->free_list, node);
thread_shift_push(t) ==
    /\ Goto(t, "push", "dec")
    /\ vec' = IF free_list # NULL THEN vec_push(vec, thr[t].node) ELSE vec
    /\ UNCHANGED <<head, tail, len, data, next, arena_used, ub, ret, nIns,
                   nShift, nOk>>
    /\ ThreadFrame

\* queue->len--, the read.
thread_shift_dec(t) ==
    /\ ~ub
    /\ thr[t].pc = "dec"
    /\ thr' = [thr EXCEPT ![t].pc = "dec_store", ![t].tmp = len]
    /\ UNCHANGED <<head, tail, len, data, next, vec, arena_used, ub, ret,
                   nIns, nShift, nOk, mutex>>
    /\ ThreadFrame

\* queue->len--, the write.
thread_shift_dec_store(t) ==
    /\ Goto(t, "dec_store", "data_read")
    /\ len' = SizeDec(thr[t].tmp)
    /\ UNCHANGED <<head, tail, data, next, vec, arena_used, ub, ret, nIns,
                   nShift, nOk>>
    /\ ThreadFrame

\* return node->data;
thread_shift_return(t) ==
    /\ Return(t, "data_read")
    /\ ret' = data[thr[t].node]
    /\ UNCHANGED <<head, tail, len, data, next, vec, arena_used, ub, nIns,
                   nShift, nOk>>
    /\ ThreadFrame

InitThreads ==
    /\ \E n \in 1 .. MaxArena, flOk \in BOOLEAN, garbage \in {NULL, 1} :
           alinked_queue_init(n, flOk, garbage)
    /\ NothingObserved
    /\ locking \in BOOLEAN

NextThreads ==
    \/ \E t \in Threads : thread_append_call(t, t)
    \/ \E t \in Threads : thread_append_suitable(t)
    \/ \E t \in Threads : thread_append_data(t)
    \/ \E t \in Threads : thread_append_next(t)
    \/ \E t \in Threads : thread_append_test(t)
    \/ \E t \in Threads : thread_append_head(t)
    \/ \E t \in Threads : thread_append_link(t)
    \/ \E t \in Threads : thread_append_tail(t)
    \/ \E t \in Threads : thread_append_inc(t)
    \/ \E t \in Threads : thread_append_inc_store(t)
    \/ \E t \in Threads : thread_shift_call(t)
    \/ \E t \in Threads : thread_shift_node(t)
    \/ \E t \in Threads : thread_shift_ends(t)
    \/ \E t \in Threads : thread_shift_head_null(t)
    \/ \E t \in Threads : thread_shift_tail_null(t)
    \/ \E t \in Threads : thread_shift_head_next(t)
    \/ \E t \in Threads : thread_shift_push(t)
    \/ \E t \in Threads : thread_shift_dec(t)
    \/ \E t \in Threads : thread_shift_dec_store(t)
    \/ \E t \in Threads : thread_shift_return(t)

SpecThreads == InitThreads /\ [][NextThreads]_vars

\* --------------------------------------------------------------- the chain
\* The nodes met by following next from h, at most fuel of them.
RECURSIVE Walk(_, _)
Walk(h, fuel) ==
    IF h = NULL \/ fuel = 0 THEN <<>>
    ELSE <<h>> \o Walk(next[h], fuel - 1)

\* One more than the slots, so that a cycle shows as a chain too long.
Chain == Walk(head, MaxArena + 1)

Payloads == [i \in 1 .. Len(Chain) |-> data[Chain[i]]]

TypeOK ==
    /\ head \in Slots \cup {NULL}
    /\ tail \in Slots \cup {NULL}
    /\ len \in Nat
    /\ allocator \in {NULL, 1}
    /\ free_list \in {NULL, 1, Unset}
    /\ arena_used \in 0 .. arena_len

Live == {Chain[i] : i \in 1 .. Len(Chain)}

IsInsert(c) == c.op \in {"append", "prepend"}

\* ------------------------------------------------------------------ claims

\* C1: while no node acquisition has failed (and the queue is not destroyed),
\* len equals the number of append and prepend calls minus the number of
\* shift calls, and is never negative; so every shift lowers len by one.
C1_LenCountsCalls ==
    (~acqFailed /\ nDestroy = 0 /\ ~ub) =>
        /\ len = nIns - nShift
        /\ len >= 0
        /\ (last.op = "shift" => len = last.lenBefore - 1)

\* C2: the payloads read by walking next from head are the abstract sequence
\* S (append adds at the back, prepend at the front, shift removes the front,
\* a failed acquisition changes nothing), and shift returns the front of S.
C2_RefinesSequence ==
    /\ Payloads = S
    /\ (last.op = "shift" => ret = last.front)
    /\ (S # <<>> => (data[head] = Head(S) /\ data[tail] = S[Len(S)]))

\* C2 witness: the scenario of the specification with its values renamed:
\* two appends and a prepend, a shift that returned the prepended value, and
\* the two appended values left in order.
C2_Witness ==
    /\ last.op = "shift"
    /\ nPrepend = 1
    /\ Len(S) = 2
    /\ S[1] # S[2]
    /\ ret = last.front
    /\ Payloads = S

\* C3: in a run of successful appends and shifts, the k-th shift returns the
\* k-th appended value; a value appended to a queue holding len items is the
\* (shifts so far + len + 1)-th appended value, so the (len+1)-th later shift
\* returns it.
C3_Fifo ==
    Pure =>
        /\ (last.op = "shift" =>
               /\ nShift <= Len(appended)
               /\ ret = appended[nShift])
        /\ (last.op = "append" =>
               /\ Len(appended) = nShift + last.lenBefore + 1
               /\ appended[Len(appended)] = last.arg)
        /\ Payloads = SubSeq(appended, nShift + 1, Len(appended))

\* C3 witness: three appends, the first two of different values, and the
\* second shift has returned.
C3_Witness ==
    /\ Pure
    /\ last.op = "shift"
    /\ nShift = 2
    /\ Len(appended) = 3
    /\ appended[1] # appended[2]

\* C4: a successful prepend of v followed at once by shift returns v.
C4_PrependThenShift ==
    (last.op = "shift" /\ last.prevOp = "prepend" /\ last.prevOk) =>
        ret = last.prevArg

\* C4 witness: the prepend was on a queue whose head held another value, and
\* the shift after it has returned.
C4_Witness ==
    /\ last.op = "shift"
    /\ last.prevOp = "prepend"
    /\ last.prevOk
    /\ len >= 1
    /\ data[head] # last.prevArg

\* C5: head is NULL iff tail is NULL iff len is 0, and head equals tail
\* exactly when len is at most 1 (destroy included).
C5_EndsAgreeWithLen ==
    ~ub =>
        /\ (head = NULL) <=> (tail = NULL)
        /\ (tail = NULL) <=> (len = 0)
        /\ (head = tail) <=> (len <= 1)

\* C6: with len >= 1, following next from head reaches tail after exactly
\* len - 1 steps and tail's next is NULL: the chain has len distinct nodes
\* and ends at tail, also when the inserted node was recycled from the free
\* list with a stale next link.
C6_ChainShape ==
    len >= 1 =>
        /\ Len(Chain) = len
        /\ Chain[len] = tail
        /\ next[tail] = NULL
        /\ Cardinality(Live) = len

\* C6 witness: the node just inserted came from the free list with a next
\* link that still pointed into the chain, and the chain has two nodes or
\* more.
C6_Witness ==
    /\ IsInsert(last)
    /\ last.ok
    /\ last.reused
    /\ last.stale # NULL
    /\ last.stale \in Live
    /\ len >= 2

\* The free list is empty or absent and the arena has no slot left.
NoNodeLeft == (free_list = NULL \/ Len(vec) = 0) /\ arena_used = arena_len

\* C7: an append or prepend made when no node can be acquired changes
\* neither head, tail, len, any payload or next link, nor the free list; and
\* a value that was only ever dropped is in no live node and is never
\* returned by shift.
C7_FailedInsertIsNoOp ==
    /\ [][(nIns' = nIns + 1 /\ NoNodeLeft) =>
            /\ UNCHANGED <<head, tail, len, data, next, vec, free_list,
                           allocator, arena_used, S>>
            /\ ~last'.ok]_vars
    /\ [](\A v \in dropped \ inserted :
            /\ ret # v
            /\ \A n \in Live : data[n] # v)

\* C7 witness: an insertion has failed, its value was never inserted, and a
\* shift has returned since.
C7_Witness ==
    /\ acqFailed
    /\ dropped \ inserted # {}
    /\ last.op = "shift"
    /\ last.prevOp \in {"append", "prepend"}
    /\ ~last.prevOk

\* C8: with a free list that is present and not empty, append and prepend
\* use the node pushed last (it becomes tail, or head), remove it from the
\* free list and ask the arena for nothing.
C8_ReuseIsLifo ==
    [][(nIns' = nIns + 1 /\ free_list # NULL /\ Len(vec) > 0) =>
         LET top == vec[Len(vec)] IN
         /\ last'.ok
         /\ last'.node = top
         /\ data'[top] = last'.arg
         /\ (last'.op = "append" => tail' = top)
         /\ (last'.op = "prepend" => head' = top)
         /\ vec' = SubSeq(vec, 1, Len(vec) - 1)
         /\ arena_used' = arena_used]_vars

\* C8 witness: an insertion took its node from a free list of two nodes or
\* more while the arena still had a slot to give.
C8_Witness ==
    /\ IsInsert(last)
    /\ last.reused
    /\ last.freeBefore >= 2
    /\ Len(vec) = last.freeBefore - 1
    /\ arena_used < arena_len

\* C9: destroy twice releases the arena once and frees the free-list
\* container once, and the second destroy changes nothing: head and tail
\* NULL, len 0, allocator NULL, free_list NULL after both.
C9_DestroyIdempotent ==
    /\ [](arena_released <= 1 /\ fl_freed <= 1 /\
          (nDestroy >= 1 => arena_released = 1))
    /\ [][(nDestroy >= 1 /\ nDestroy' = nDestroy + 1) =>
            /\ UNCHANGED <<queue, memory, arena_released, fl_freed,
                           elem_freed>>
            /\ head' = NULL /\ tail' = NULL /\ len' = 0
            /\ allocator' = NULL /\ free_list' = NULL]_vars

\* C9 witness: destroy was called twice on a queue that had a free list.
C9_Witness ==
    /\ nDestroy >= 2
    /\ last.op = "destroy"
    /\ last.prevOp = "destroy"
    /\ arena_released = 1
    /\ fl_freed = 1

\* C10: destroy releases the arena, frees the free-list container without
\* calling a destructor on its elements, and leaves head, tail NULL, len 0,
\* allocator and free_list NULL: the queue holds no reference into the
\* released memory.
C10_DestroyClears ==
    /\ [](nDestroy >= 1 =>
            /\ head = NULL /\ tail = NULL /\ len = 0
            /\ allocator = NULL /\ free_list = NULL /\ vec = <<>>
            /\ arena_released >= 1
            /\ elem_freed = 0)
    /\ [][(nDestroy = 0 /\ nDestroy' = 1) =>
            /\ arena_released' = 1
            /\ fl_freed' = IF free_list # NULL THEN 1 ELSE 0]_vars

\* C10 witness: the first destroy was called on a queue with live nodes and
\* a free list that held nodes.
C10_Witness ==
    /\ nDestroy = 1
    /\ last.op = "destroy"
    /\ last.lenBefore >= 1
    /\ last.freeBefore >= 1
    /\ fl_freed = 1

\* C11: when init could not construct the arena the queue is empty with no
\* allocator, and append, prepend and destroy on it are no-ops with defined
\* behaviour: none reads the free_list field unset, none hands a NULL
\* allocator to the arena.
C11_NoArenaIsSafe ==
    allocator = NULL =>
        /\ ~ub
        /\ head = NULL /\ tail = NULL /\ len = 0

Min(a, b) == IF a <= b THEN a ELSE b

PayloadSet == {data[n] : n \in Live}

\* C12: with no free list and an arena of N slots, K appends and prepends
\* with no shift leave len = min(K, N): the first N insert, each later one
\* leaves len as it was and its value is not in the chain.
C12_NoFreeListCapacity ==
    (free_list = NULL /\ nDestroy = 0 /\ nShift = 0) =>
        /\ len = Min(nIns, arena_len)
        /\ nOk = Min(nIns, arena_len)
        /\ Len(Chain) = len
        /\ (nIns > arena_len =>
               /\ ~last.ok
               /\ len = last.lenBefore
               /\ (dropped \ inserted) \cap PayloadSet = {})

\* C12 witness: an arena of 2 slots, no free list, three insertions, the
\* third of a value the first two did not insert.
C12_Witness ==
    /\ free_list = NULL /\ nDestroy = 0 /\ nShift = 0
    /\ arena_len = 2
    /\ nIns = 3
    /\ len = 2
    /\ dropped \ inserted # {}

FreeSet == {vec[i] : i \in 1 .. Len(vec)}

\* C13: the free list holds only nodes that are not in the live chain: no
\* node is both linked from head and in the free list, no node is in the
\* free list twice, and no live node's next link points to a free-list node.
C13_FreeListDisjoint ==
    /\ Live \cap FreeSet = {}
    /\ Cardinality(FreeSet) = Len(vec)
    /\ \A n \in Live : next[n] \notin FreeSet
    /\ NULL \notin FreeSet

\* C13 witness: two nodes are in the free list, one is linked, and the link
\* of a free node still points to the linked one.
C13_Witness ==
    /\ Len(vec) >= 2
    /\ len >= 1
    /\ \E n \in FreeSet : next[n] \in Live

\* C14: shift on an empty queue is a checked error: it reads no payload of
\* a NULL node, pushes no NULL handle onto the free list, and leaves head,
\* tail and len as they were (len does not wrap below 0).
C14_ShiftOnEmptyIsChecked ==
    (last.op = "shift" /\ last.node = NULL) =>
        /\ ~ub
        /\ head = NULL /\ tail = NULL
        /\ len = last.lenBefore
        /\ NULL \notin FreeSet

\* init could not allocate the free list, and the queue is not destroyed.
Degraded == free_list = NULL /\ nDestroy = 0

\* C15: without a free list the queue is degraded but safe: head, tail, len
\* and the chain keep their invariants, a shifted node is kept nowhere and
\* never reused (every inserted node is the slot the arena handed out last),
\* so at most N insertions succeed for an arena of N slots.
C15_DegradedIsSafe ==
    Degraded =>
        /\ (head = NULL) <=> (len = 0)
        /\ (tail = NULL) <=> (len = 0)
        /\ (head = tail) <=> (len <= 1)
        /\ Len(Chain) = len
        /\ (len >= 1 => (Chain[len] = tail /\ next[tail] = NULL))
        /\ vec = <<>>
        /\ nOk = arena_used
        /\ nOk <= arena_len
        /\ len = nOk - nShift
        /\ (IsInsert(last) =>
               /\ ~last.reused
               /\ last.ok = (last.node # NULL)
               /\ (last.ok => last.node = arena_used))
        /\ Live \subseteq 1 .. arena_used

\* C15 witness: an insertion failed on a queue holding fewer nodes than the
\* arena has slots, after a shift.
C15_Witness ==
    /\ Degraded
    /\ IsInsert(last)
    /\ ~last.ok
    /\ nShift >= 1
    /\ len < arena_len
    /\ nOk = arena_len

\* C17: an append or prepend on a queue that shifts have emptied installs
\* the node as both head and tail with a NULL next link and dereferences no
\* NULL tail: the emptiness test of append and prepend (len == 0) agrees
\* with the one of shift (head == tail, both NULL) in every reachable state.
C17_EmptinessTestsAgree ==
    /\ ~ub
    /\ (len = 0) <=> (head = NULL /\ tail = NULL)
    /\ (IsInsert(last) /\ last.ok /\ last.front = Indeterminate) =>
           /\ head = last.node
           /\ tail = last.node
           /\ next[last.node] = NULL

\* C18: on a non-empty queue, a successful append leaves head and the
\* payload of every node that was linked as they were; a successful prepend
\* leaves tail and the payload and next link of every node that was linked;
\* a shift with len > 1 leaves tail and the payload and next link of every
\* node that stays linked, and moves head to the removed node's next.
C18_Frame ==
    [][/\ (last'.op = "append" /\ nIns' = nIns + 1 /\ last'.ok /\ len >= 1) =>
            /\ head' = head
            /\ \A n \in Live : data'[n] = data[n]
            /\ \A n \in Live \ {tail} : next'[n] = next[n]
       /\ (last'.op = "prepend" /\ nIns' = nIns + 1 /\ last'.ok /\ len >= 1) =>
            /\ tail' = tail
            /\ \A n \in Live : data'[n] = data[n] /\ next'[n] = next[n]
       /\ (nShift' = nShift + 1 /\ len > 1) =>
            /\ tail' = tail
            /\ head' = next[head]
            /\ \A n \in Live \ {head} : data'[n] = data[n] /\ next'[n] = next[n]
      ]_vars

\* C18 witness: a prepend on a queue of two nodes or more, the node taken
\* from the free list.
C18_Witness ==
    /\ last.op = "prepend"
    /\ last.ok
    /\ last.reused
    /\ last.lenBefore >= 2

\* C19: shift returns the payload the head node held when shift was called,
\* though the node is pushed onto the free list before the payload is read:
\* the push changes no payload, and shift pushes exactly the removed node
\* when there is a free list and nothing when there is none.
C19_ShiftReturnsHeadPayload ==
    [][nShift' = nShift + 1 =>
         /\ ret' = data[head]
         /\ data' = data
         /\ last'.node = head
         /\ (free_list # NULL => vec' = Append(vec, head))
         /\ (free_list = NULL => vec' = vec)]_vars

\* C19 witness: a shift has pushed the removed node onto a free list that
\* already held a node, and returned the payload that node still holds.
C19_Witness ==
    /\ last.op = "shift"
    /\ free_list # NULL
    /\ last.freeBefore >= 1
    /\ Len(vec) = last.freeBefore + 1
    /\ vec[Len(vec)] = last.node
    /\ ret = data[last.node]
    /\ ret \in Values

\* C20: after an init whose arena construction succeeded, head and tail are
\* NULL, len is 0, the arena has handed out no slot, and the free list is
\* either an empty list made with capacity 15 and growth factor 1.5 or
\* absent (NULL) when its allocation failed.
C20_AfterInit ==
    last.op = "init" =>
        /\ head = NULL /\ tail = NULL /\ len = 0
        /\ allocator # NULL
        /\ arena_used = 0
        /\ arena_len >= 1
        /\ \/ free_list = 1 /\ vec = <<>> /\ vec_init = <<15, 15>>
           \/ free_list = NULL /\ vec = <<>> /\ vec_init = <<>>

\* C20 witness: the init whose free list could not be allocated.
C20_Witness ==
    /\ last.op = "init"
    /\ allocator # NULL
    /\ free_list = NULL
    /\ arena_len = MaxArena

\* C21: with a free list, in every state reached from a successful init by
\* append, prepend and shift on a non-empty queue, every slot the arena has
\* handed out is either in the live chain or in the free list, and in one of
\* them only: the number of arena allocations is len plus the length of the
\* free list, and every node reached from head is a slot the arena handed out.
C21_NodeConservation ==
    (free_list # NULL /\ nDestroy = 0) =>
        /\ arena_used = len + Len(vec)
        /\ Live \cup FreeSet = 1 .. arena_used
        /\ Live \cap FreeSet = {}
        /\ Cardinality(Live) = len
        /\ Cardinality(FreeSet) = Len(vec)
        /\ Live \subseteq 1 .. arena_used

\* C21 witness: every slot of the arena was handed out, a shift has put a
\* node on the free list after another was taken from it, and nodes are in
\* the chain and in the free list at once.
C21_Witness ==
    /\ free_list # NULL /\ nDestroy = 0
    /\ arena_used = arena_len
    /\ arena_len >= 2
    /\ last.op = "shift"
    /\ last.prevOp \in {"append", "prepend"}
    /\ nShift >= 2
    /\ len >= 1
    /\ Len(vec) >= 1

\* C22: with a free list and an arena of N slots, an append or prepend fails
\* exactly when len is N: on a queue with len < N it inserts, whatever
\* insertions and shifts came before; len never exceeds N, and the number of
\* arena allocations is the highest len reached so far.
C22_FailsOnlyWhenFull ==
    /\ []((free_list # NULL /\ nDestroy = 0) =>
            /\ len <= arena_len
            /\ arena_used = maxLen)
    /\ [][(nIns' = nIns + 1 /\ free_list # NULL) =>
            /\ last'.ok = (len < arena_len)
            /\ (~last'.ok) = (len = arena_len)
            /\ (last'.ok => len' = len + 1)
            /\ (~last'.ok => len' = len)]_vars

\* C22 witness: after shifts, an insertion on a queue with fewer nodes than
\* the arena has slots took a node though the arena had none left, and the
\* next insertion, on the full queue, failed.
C22_Witness ==
    /\ free_list # NULL
    /\ IsInsert(last)
    /\ ~last.ok
    /\ last.lenBefore = arena_len
    /\ last.prevOp \in {"append", "prepend"}
    /\ last.prevOk
    /\ nShift >= 1
    /\ arena_len >= 2
    /\ maxLen = arena_len

\* No thread is inside a call.
Quiescent == \A t \in Threads : thr[t].pc = "idle"

\* len is the number of nodes reached from head, and tail is the last.
Consistent ==
    /\ len = Len(Chain)
    /\ (len = 0 => tail = NULL)
    /\ (len >= 1 => (Chain[len] = tail /\ next[tail] = NULL))

\* C23: the queue has no synchronization of its own.  A state between calls
\* in which len differs from the number of nodes reached from head, or in
\* which tail is not the last node, and a NULL tail dereferenced by append,
\* occur only when the threads' calls ran without a lock, their statements
\* interleaved; when every call runs to completion under the callers' one
\* lock, no such state is reached.
C23_OnlyUnlockedCallsRace ==
    (ub \/ (Quiescent /\ ~Consistent)) => ~locking

\* C23 witness: two appends by two threads without a lock have both
\* returned, no shift was called, and len is not the number of nodes reached
\* from head.
C23_Witness ==
    /\ Quiescent
    /\ ~locking
    /\ ~ub
    /\ nShift = 0
    /\ nIns = 2 /\ nOk = 2
    /\ len # Len(Chain)

====
